---- MODULE Spec2Model ----
(***************************************************************************)
(* Kobo sync authentication of calibre-web (cps/kobo_auth.py).             *)
(*                                                                         *)
(* The state is the remote_auth_token table, the login manager's           *)
(* blueprint_login_views table, the login cookie of every device session   *)
(* and, per request in flight, the position of its handler and the         *)
(* handler's locals.  A handler is cut where it reaches the shared table   *)
(* (query, commit), so that concurrent requests interleave there.          *)
(***************************************************************************)
EXTENDS Integers, FiniteSets, TLC

\* ------------------------------------------------------------------ bounds
NumUsers == 2
NumTokens == 3
NumReqs == 2
NumDevices == 1

\* --------------------------------------------------------------- constants
\* token_type of a Kobo sync token (auth_token.token_type = 1)
KoboTokenType == 1
\* token_type of the rows other parts of the application keep in the table
OtherTokenType == 0
\* datetime.max, by its year
DatetimeMax == 9999

Users == 1..NumUsers
Tokens == 1..NumTokens
Reqs == 1..NumReqs
Devices == 1..NumDevices

\* Python's None, as a user, as a token value and as a login view
NoUser == 0
NoToken == 0
NoView == "None"
\* lm.login_view, the view every blueprint redirects to unless told otherwise
LoginView == "web.login"
\* the value of the other matched URL value of a device route
BookUuid == "uuid"

KoboBlueprint == "kobo"
KoboAuthBlueprint == "kobo_auth"
\* the blueprint of the routes that are not Kobo specific (the book download)
WebBlueprint == "web"

\* ub.RemoteAuthToken: one row of the table
Row(u, t, ty, e) == [user_id |-> u, auth_token |-> t, token_type |-> ty, expiration |-> e]
NoRow == Row(NoUser, NoToken, OtherTokenType, 0)

VARIABLES
    store,                  \* committed rows of remote_auth_token
    blueprint_login_views,  \* lm.blueprint_login_views: blueprint name -> login view
    cookie,                 \* device session -> user id stored by login_user
    kind,                   \* request -> "idle", "issue", "revoke", "device", "generic"
    pc,                     \* request -> position of its handler
    caller,                 \* request -> identity of the session that sent it
    user_id,                \* request -> the <int:user_id> of the URL
    dev,                    \* request -> the device session it belongs to
    values,                 \* request -> matched URL values (view_args)
    g,                      \* request -> flask.g of the request
    auth_token,             \* request -> the handler's local auth_token (a row)
    identity,               \* request -> user the request is authenticated as
    resp,                   \* request -> response status
    revoked                 \* history: user -> the token value its last revocation
                            \* deleted, until the user is issued a token again

vars == <<store, blueprint_login_views, cookie, kind, pc, caller, user_id, dev,
          values, g, auth_token, identity, resp, revoked>>

reqvars == <<kind, pc, caller, user_id, dev, values, g, auth_token, identity, resp>>

\* a function with an empty domain: an empty flask.g
Empty == [k \in {} |-> NoToken]

\* ------------------------------------------------------------- the table
\* a table that accepts every row
UniqueOKNone(s, row) == row \notin s

\* the unique constraint of the table on (user_id, token_type): may `row` be stored
UniqueOK(s, row) ==
    \A r \in s : ~(r.user_id = row.user_id /\ r.token_type = row.token_type)

\* query(RemoteAuthToken).filter(user_id == u).filter(token_type == 1)
TokensOfUser(s, u) == {r \in s : r.user_id = u /\ r.token_type = KoboTokenType}

\* the join and filter of the resolver's query, without the token_type filter
UsersOfTokenAnyType(s, t) == {r.user_id : r \in {x \in s : x.auth_token = t}}

\* query(User).join(RemoteAuthToken).filter(auth_token == t).filter(token_type == 1)
UsersOfToken(s, t) ==
    {r.user_id : r \in {x \in s : x.auth_token = t /\ x.token_type = KoboTokenType
                                   /\ x.user_id \in Users}}

\* ------------------------------------------------------------ kobo_auth.py
\* token values the state still holds: those of stored rows, of the rows that
\* requests in flight hold, and of the revoked tokens the history remembers
InUse ==
    {row.auth_token : row \in store}
    \cup {auth_token[r].auth_token : r \in Reqs}
    \cup {revoked[u] : u \in Users}

\* a generator that may return a value it returned before
urandom_repeating(used) == Tokens

\* hexlify(urandom(16)): "a random and unique token", one not handed out before
urandom(used) == Tokens \ used

\* get_auth_token(): the token stashed in g, None when g has none
get_auth_token(gr) == IF "auth_token" \in DOMAIN gr THEN gr["auth_token"] ELSE NoToken

\* load_user_from_kobo_request: the users .first() may return; {NoUser} for None
load_user_from_kobo_request(gr, s) ==
    LET tok == get_auth_token(gr) IN
    IF tok # NoToken /\ UsersOfToken(s, tok) # {} THEN UsersOfToken(s, tok) ELSE {NoUser}

\* LoginManager.unauthorized(): the answer to a request that has no identity
Unauthorized(bp) ==
    LET view == IF bp \in DOMAIN blueprint_login_views
                THEN blueprint_login_views[bp] ELSE LoginView
    IN IF view = NoView THEN "401" ELSE "redirect"

\* view_args a device request can arrive with
DeviceValues ==
    {"book_uuid" :> BookUuid}
    \cup {("auth_token" :> t) @@ ("book_uuid" :> BookUuid) : t \in Tokens}

Started == KoboBlueprint \in DOMAIN blueprint_login_views

Init ==
    /\ store = {}
    /\ blueprint_login_views = [k \in {} |-> NoView]
    /\ cookie = [d \in Devices |-> NoUser]
    /\ kind = [r \in Reqs |-> "idle"]
    /\ pc = [r \in Reqs |-> "idle"]
    /\ caller = [r \in Reqs |-> NoUser]
    /\ user_id = [r \in Reqs |-> NoUser]
    /\ dev = [r \in Reqs |-> 0]
    /\ values = [r \in Reqs |-> Empty]
    /\ g = [r \in Reqs |-> Empty]
    /\ auth_token = [r \in Reqs |-> NoRow]
    /\ identity = [r \in Reqs |-> NoUser]
    /\ resp = [r \in Reqs |-> "none"]
    /\ revoked = [u \in Users |-> NoToken]

\* the start-up call with the kobo blueprint that leaves its login view in place
disable_failed_auth_redirect_keeps_view ==
    /\ ~Started
    /\ blueprint_login_views' = (KoboBlueprint :> LoginView) @@ blueprint_login_views
    /\ UNCHANGED <<store, cookie, reqvars, revoked>>

\* disable_failed_auth_redirect_for_blueprint(kobo), called once at start-up
disable_failed_auth_redirect_for_blueprint ==
    /\ ~Started
    /\ blueprint_login_views' = (KoboBlueprint :> NoView) @@ blueprint_login_views
    /\ UNCHANGED <<store, cookie, reqvars, revoked>>

\* a request for /kobo_auth/generate_auth_token/<u> or /kobo_auth/deleteauthtoken/<u>
WebRequest(r) ==
    /\ Started
    /\ pc[r] = "idle"
    /\ \E k \in {"issue", "revoke"}, u \in Users, c \in Users \cup {NoUser} :
        /\ kind' = [kind EXCEPT ![r] = k]
        /\ user_id' = [user_id EXCEPT ![r] = u]
        /\ caller' = [caller EXCEPT ![r] = c]
    /\ pc' = [pc EXCEPT ![r] = "login_required"]
    /\ UNCHANGED <<store, blueprint_login_views, cookie, dev, values, g, auth_token,
                   identity, resp, revoked>>

\* the kobo_auth routes without @login_required
login_required_missing(r) ==
    /\ pc[r] = "login_required"
    /\ pc' = [pc EXCEPT ![r] = IF kind[r] = "issue" THEN "query" ELSE "delete"]
    /\ identity' = [identity EXCEPT ![r] = caller[r]]
    /\ UNCHANGED <<store, blueprint_login_views, cookie, kind, caller, user_id, dev,
                   values, g, auth_token, resp, revoked>>

\* @login_required of both kobo_auth routes
login_required(r) ==
    /\ pc[r] = "login_required"
    /\ IF caller[r] = NoUser
       THEN /\ pc' = [pc EXCEPT ![r] = "done"]
            /\ resp' = [resp EXCEPT ![r] = Unauthorized(KoboAuthBlueprint)]
            /\ UNCHANGED identity
       ELSE /\ pc' = [pc EXCEPT ![r] = IF kind[r] = "issue" THEN "query" ELSE "delete"]
            /\ identity' = [identity EXCEPT ![r] = caller[r]]
            /\ UNCHANGED resp
    /\ UNCHANGED <<store, blueprint_login_views, cookie, kind, caller, user_id, dev,
                   values, g, auth_token, revoked>>

\* the query of generate_auth_token that makes a new row whatever it finds
generate_auth_token_query_rotate(r) ==
    /\ pc[r] = "query"
    /\ \E t \in urandom(InUse) :
          auth_token' = [auth_token EXCEPT ![r] =
                            Row(user_id[r], t, KoboTokenType, DatetimeMax)]
    /\ pc' = [pc EXCEPT ![r] = "commit"]
    /\ UNCHANGED <<store, blueprint_login_views, cookie, kind, caller, user_id, dev,
                   values, g, identity, resp, revoked>>

\* generate_auth_token whose new row expires at once (expiration 0)
generate_auth_token_query_expiring(r) ==
    /\ pc[r] = "query"
    /\ IF TokensOfUser(store, user_id[r]) # {}
       THEN /\ \E row \in TokensOfUser(store, user_id[r]) :
                 auth_token' = [auth_token EXCEPT ![r] = row]
            /\ pc' = [pc EXCEPT ![r] = "render"]
       ELSE /\ \E t \in urandom(InUse) :
                 auth_token' = [auth_token EXCEPT ![r] =
                                   Row(user_id[r], t, KoboTokenType, 0)]
            /\ pc' = [pc EXCEPT ![r] = "commit"]
    /\ UNCHANGED <<store, blueprint_login_views, cookie, kind, caller, user_id, dev,
                   values, g, identity, resp, revoked>>

\* generate_auth_token: the query for the user's token, then a new row when none:
\* expiration datetime.max, auth_token hexlify(urandom(16)), token_type 1
generate_auth_token_query(r) ==
    /\ pc[r] = "query"
    /\ IF TokensOfUser(store, user_id[r]) # {}
       THEN /\ \E row \in TokensOfUser(store, user_id[r]) :
                 auth_token' = [auth_token EXCEPT ![r] = row]
            /\ pc' = [pc EXCEPT ![r] = "render"]
       ELSE /\ \E t \in urandom(InUse) :
                 auth_token' = [auth_token EXCEPT ![r] =
                                   Row(user_id[r], t, KoboTokenType, DatetimeMax)]
            /\ pc' = [pc EXCEPT ![r] = "commit"]
    /\ UNCHANGED <<store, blueprint_login_views, cookie, kind, caller, user_id, dev,
                   values, g, identity, resp, revoked>>

\* the history after a row of user u has been stored
AfterInsert(u) == [revoked EXCEPT ![u] = NoToken]

\* generate_auth_token that renders the new row without add and commit
generate_auth_token_commit_unsaved(r) ==
    /\ pc[r] = "commit"
    /\ pc' = [pc EXCEPT ![r] = "render"]
    /\ UNCHANGED <<store, blueprint_login_views, cookie, kind, caller, user_id, dev,
                   values, g, auth_token, identity, resp, revoked>>

\* generate_auth_token: ub.session.add(auth_token); ub.session.commit().
\* The table rejects a row that breaks a unique constraint and commit() raises.
generate_auth_token_commit(r) ==
    /\ pc[r] = "commit"
    /\ IF UniqueOK(store, auth_token[r])
       THEN /\ store' = store \cup {auth_token[r]}
            /\ pc' = [pc EXCEPT ![r] = "render"]
            /\ revoked' = AfterInsert(user_id[r])
            /\ UNCHANGED resp
       ELSE /\ pc' = [pc EXCEPT ![r] = "error"]
            /\ resp' = [resp EXCEPT ![r] = "500"]
            /\ UNCHANGED <<store, revoked>>
    /\ UNCHANGED <<blueprint_login_views, cookie, kind, caller, user_id, dev,
                   values, g, auth_token, identity>>

\* generate_auth_token: render the set-up page with auth_token.auth_token in the URL
generate_auth_token_render(r) ==
    /\ pc[r] = "render"
    /\ pc' = [pc EXCEPT ![r] = "done"]
    /\ resp' = [resp EXCEPT ![r] = "200"]
    /\ UNCHANGED <<store, blueprint_login_views, cookie, kind, caller, user_id, dev,
                   values, g, auth_token, identity, revoked>>

\* the history after the rows `gone` of user u have been deleted
AfterDelete(u, gone) ==
    IF gone = {} THEN revoked
    ELSE [revoked EXCEPT ![u] = (CHOOSE row \in gone : TRUE).auth_token]

\* delete_auth_token whose query has no token_type filter
delete_auth_token_all_types(r) ==
    /\ pc[r] = "delete"
    /\ store' = {row \in store : row.user_id # user_id[r]}
    /\ revoked' = AfterDelete(user_id[r], TokensOfUser(store, user_id[r]))
    /\ pc' = [pc EXCEPT ![r] = "done"]
    /\ resp' = [resp EXCEPT ![r] = "200"]
    /\ UNCHANGED <<blueprint_login_views, cookie, kind, caller, user_id, dev,
                   values, g, auth_token, identity>>

\* delete_auth_token without its commit: the rows stay
delete_auth_token_no_commit(r) ==
    /\ pc[r] = "delete"
    /\ revoked' = AfterDelete(user_id[r], TokensOfUser(store, user_id[r]))
    /\ pc' = [pc EXCEPT ![r] = "done"]
    /\ resp' = [resp EXCEPT ![r] = "200"]
    /\ UNCHANGED <<store, blueprint_login_views, cookie, kind, caller, user_id, dev,
                   values, g, auth_token, identity>>

\* delete_auth_token that fails when the user has no row to delete
delete_auth_token_strict(r) ==
    /\ pc[r] = "delete"
    /\ store' = store \ TokensOfUser(store, user_id[r])
    /\ revoked' = AfterDelete(user_id[r], TokensOfUser(store, user_id[r]))
    /\ IF TokensOfUser(store, user_id[r]) = {}
       THEN /\ pc' = [pc EXCEPT ![r] = "error"]
            /\ resp' = [resp EXCEPT ![r] = "500"]
       ELSE /\ pc' = [pc EXCEPT ![r] = "done"]
            /\ resp' = [resp EXCEPT ![r] = "200"]
    /\ UNCHANGED <<blueprint_login_views, cookie, kind, caller, user_id, dev,
                   values, g, auth_token, identity>>

\* delete_auth_token: query(...).filter(user_id).filter(token_type == 1).delete();
\* ub.session.commit(); return ""
delete_auth_token(r) ==
    /\ pc[r] = "delete"
    /\ store' = store \ TokensOfUser(store, user_id[r])
    /\ revoked' = AfterDelete(user_id[r], TokensOfUser(store, user_id[r]))
    /\ pc' = [pc EXCEPT ![r] = "done"]
    /\ resp' = [resp EXCEPT ![r] = "200"]
    /\ UNCHANGED <<blueprint_login_views, cookie, kind, caller, user_id, dev,
                   values, g, auth_token, identity>>

\* a request of a device to a route of the kobo blueprint
DeviceRequest(r) ==
    /\ Started
    /\ pc[r] = "idle"
    /\ kind' = [kind EXCEPT ![r] = "device"]
    /\ \E d \in Devices : dev' = [dev EXCEPT ![r] = d]
    /\ \E v \in DeviceValues : values' = [values EXCEPT ![r] = v]
    /\ pc' = [pc EXCEPT ![r] = "preprocess"]
    /\ UNCHANGED <<store, blueprint_login_views, cookie, caller, user_id, g, auth_token,
                   identity, resp, revoked>>

\* pop_auth_token that reads values["auth_token"] and leaves the key in values
pop_auth_token_keeps_key(r) ==
    /\ pc[r] = "preprocess"
    /\ IF "auth_token" \in DOMAIN values[r]
       THEN /\ g' = [g EXCEPT ![r] = ("auth_token" :> values[r]["auth_token"])]
            /\ pc' = [pc EXCEPT ![r] = "load_user"]
            /\ UNCHANGED <<resp, values>>
       ELSE /\ pc' = [pc EXCEPT ![r] = "error"]
            /\ resp' = [resp EXCEPT ![r] = "500"]
            /\ UNCHANGED <<g, values>>
    /\ UNCHANGED <<store, blueprint_login_views, cookie, kind, caller, user_id, dev,
                   auth_token, identity, revoked>>

\* pop_auth_token that stashes the token in one place shared by all requests
pop_auth_token_global(r) ==
    /\ pc[r] = "preprocess"
    /\ IF "auth_token" \in DOMAIN values[r]
       THEN /\ g' = [x \in Reqs |-> ("auth_token" :> values[r]["auth_token"])]
            /\ values' = [values EXCEPT ![r] =
                             [k \in DOMAIN values[r] \ {"auth_token"} |-> values[r][k]]]
            /\ pc' = [pc EXCEPT ![r] = "load_user"]
            /\ UNCHANGED resp
       ELSE /\ pc' = [pc EXCEPT ![r] = "error"]
            /\ resp' = [resp EXCEPT ![r] = "500"]
            /\ UNCHANGED <<g, values>>
    /\ UNCHANGED <<store, blueprint_login_views, cookie, kind, caller, user_id, dev,
                   auth_token, identity, revoked>>

\* pop_auth_token: g.auth_token = values.pop("auth_token"); KeyError without the key
pop_auth_token(r) ==
    /\ pc[r] = "preprocess"
    /\ IF "auth_token" \in DOMAIN values[r]
       THEN /\ g' = [g EXCEPT ![r] = ("auth_token" :> values[r]["auth_token"])]
            /\ values' = [values EXCEPT ![r] =
                             [k \in DOMAIN values[r] \ {"auth_token"} |-> values[r][k]]]
            /\ pc' = [pc EXCEPT ![r] = "load_user"]
            /\ UNCHANGED resp
       ELSE /\ pc' = [pc EXCEPT ![r] = "error"]
            /\ resp' = [resp EXCEPT ![r] = "500"]
            /\ UNCHANGED <<g, values>>
    /\ UNCHANGED <<store, blueprint_login_views, cookie, kind, caller, user_id, dev,
                   auth_token, identity, revoked>>

\* a request of a device session to a route that is not Kobo specific: its URL
\* has no auth_token and pop_auth_token is not registered for it
GenericRequest(r) ==
    /\ Started
    /\ pc[r] = "idle"
    /\ kind' = [kind EXCEPT ![r] = "generic"]
    /\ \E d \in Devices : dev' = [dev EXCEPT ![r] = d]
    /\ pc' = [pc EXCEPT ![r] = "load_user"]
    /\ UNCHANGED <<store, blueprint_login_views, cookie, caller, user_id, values, g,
                   auth_token, identity, resp, revoked>>

\* the blueprint a request of a device session is routed to
BlueprintOf(r) == IF kind[r] = "device" THEN KoboBlueprint ELSE WebBlueprint

\* load_user whose resolver returns the user without login_user(user)
load_user_no_login(r) ==
    /\ pc[r] = "load_user"
    /\ IF cookie[dev[r]] # NoUser
       THEN /\ identity' = [identity EXCEPT ![r] = cookie[dev[r]]]
            /\ resp' = [resp EXCEPT ![r] = "200"]
       ELSE \E u \in load_user_from_kobo_request(g[r], store) :
            /\ identity' = [identity EXCEPT ![r] = u]
            /\ resp' = [resp EXCEPT ![r] =
                           IF u # NoUser THEN "200" ELSE Unauthorized(BlueprintOf(r))]
    /\ pc' = [pc EXCEPT ![r] = "done"]
    /\ UNCHANGED <<store, blueprint_login_views, cookie, kind, caller, user_id, dev,
                   values, g, auth_token, revoked>>

\* the login manager resolves the identity of a device request: the session's
\* user when the cookie names one, load_user_from_kobo_request(request)
\* otherwise, which calls login_user(user) on the user it finds
load_user(r) ==
    /\ pc[r] = "load_user"
    /\ IF cookie[dev[r]] # NoUser
       THEN /\ identity' = [identity EXCEPT ![r] = cookie[dev[r]]]
            /\ resp' = [resp EXCEPT ![r] = "200"]
            /\ UNCHANGED cookie
       ELSE \E u \in load_user_from_kobo_request(g[r], store) :
            /\ identity' = [identity EXCEPT ![r] = u]
            /\ IF u # NoUser
               THEN /\ cookie' = [cookie EXCEPT ![dev[r]] = u]
                    /\ resp' = [resp EXCEPT ![r] = "200"]
               ELSE /\ resp' = [resp EXCEPT ![r] = Unauthorized(BlueprintOf(r))]
                    /\ UNCHANGED cookie
    /\ pc' = [pc EXCEPT ![r] = "done"]
    /\ UNCHANGED <<store, blueprint_login_views, kind, caller, user_id, dev,
                   values, g, auth_token, revoked>>

\* the device session ends: its login cookie is gone
SessionEnd(d) ==
    /\ cookie[d] # NoUser
    /\ cookie' = [cookie EXCEPT ![d] = NoUser]
    /\ UNCHANGED <<store, blueprint_login_views, reqvars, revoked>>

\* the rest of the application stores and deletes rows of its own token type
OtherTokenRows ==
    /\ Started
    /\ \/ \E u \in Users, t \in urandom(InUse) :
            /\ UniqueOK(store, Row(u, t, OtherTokenType, 0))
            /\ store' = store \cup {Row(u, t, OtherTokenType, 0)}
       \/ \E row \in store :
            /\ row.token_type = OtherTokenType
            /\ store' = store \ {row}
    /\ UNCHANGED <<blueprint_login_views, cookie, reqvars, revoked>>

\* the request is over: its context and its handler's locals are gone
Finish(r) ==
    /\ pc[r] \in {"done", "error"}
    /\ kind' = [kind EXCEPT ![r] = "idle"]
    /\ pc' = [pc EXCEPT ![r] = "idle"]
    /\ caller' = [caller EXCEPT ![r] = NoUser]
    /\ user_id' = [user_id EXCEPT ![r] = NoUser]
    /\ dev' = [dev EXCEPT ![r] = 0]
    /\ values' = [values EXCEPT ![r] = Empty]
    /\ g' = [g EXCEPT ![r] = Empty]
    /\ auth_token' = [auth_token EXCEPT ![r] = NoRow]
    /\ identity' = [identity EXCEPT ![r] = NoUser]
    /\ resp' = [resp EXCEPT ![r] = "none"]
    /\ UNCHANGED <<store, blueprint_login_views, cookie, revoked>>

Next ==
    \/ disable_failed_auth_redirect_for_blueprint
    \/ \E r \in Reqs : WebRequest(r)
    \/ \E r \in Reqs : login_required(r)
    \/ \E r \in Reqs : generate_auth_token_query(r)
    \/ \E r \in Reqs : generate_auth_token_commit(r)
    \/ \E r \in Reqs : generate_auth_token_render(r)
    \/ \E r \in Reqs : delete_auth_token(r)
    \/ \E r \in Reqs : DeviceRequest(r)
    \/ \E r \in Reqs : pop_auth_token(r)
    \/ \E r \in Reqs : GenericRequest(r)
    \/ \E r \in Reqs : load_user(r)
    \/ \E d \in Devices : SessionEnd(d)
    \/ OtherTokenRows
    \/ \E r \in Reqs : Finish(r)

Spec == Init /\ [][Next]_vars

\* a failing commit that raises after the row has been written
generate_auth_token_commit_fails_partial(r) ==
    /\ pc[r] = "commit"
    /\ store' = store \cup {auth_token[r]}
    /\ pc' = [pc EXCEPT ![r] = "error"]
    /\ resp' = [resp EXCEPT ![r] = "500"]
    /\ UNCHANGED <<blueprint_login_views, cookie, kind, caller, user_id, dev,
                   values, g, auth_token, identity, revoked>>

\* the table fails while generate_auth_token commits: commit() raises, the
\* transaction is not committed and the row goes with the request's session
generate_auth_token_commit_fails(r) ==
    /\ pc[r] = "commit"
    /\ pc' = [pc EXCEPT ![r] = "error"]
    /\ resp' = [resp EXCEPT ![r] = "500"]
    /\ UNCHANGED <<store, blueprint_login_views, cookie, kind, caller, user_id, dev,
                   values, g, auth_token, identity, revoked>>

NextFail ==
    \/ Next
    \/ \E r \in Reqs : generate_auth_token_commit_fails(r)

\* the handlers with a table that may fail
SpecFail == Init /\ [][NextFail]_vars

\* ------------------------------------------------------------------ claims
\* the stashed context of a request that presents token value t
Stash(t) == "auth_token" :> t

\* does the table hold a sync token row of value t owned by u
HoldsToken(s, t, u) ==
    \E row \in s : row.auth_token = t /\ row.token_type = KoboTokenType /\ row.user_id = u

\* C1: in every reachable state, whatever the interleaving of issue and revoke
\* requests, a user has at most one row of token_type 1.
C1_AtMostOneTokenPerUser == \A u \in Users : Cardinality(TokensOfUser(store, u)) <= 1

\* two issue requests for one user raced: one stored its row, the table rejected
\* the other's
C1_Witness ==
    \E r1, r2 \in Reqs :
        /\ r1 # r2
        /\ kind[r1] = "issue" /\ kind[r2] = "issue"
        /\ user_id[r1] = user_id[r2]
        /\ pc[r1] \in {"render", "done"} /\ auth_token[r1] \in store
        /\ pc[r2] = "error" /\ auth_token[r2] \notin store

\* C2: for every token value t and user u, the resolver run on a request that
\* stashed t returns u exactly when the table holds a row (t, token_type 1, u);
\* it returns one answer only, and a row of another token_type does not resolve.
C2_ResolverExact ==
    \A t \in Tokens :
        LET res == load_user_from_kobo_request(Stash(t), store) IN
        /\ \A u \in Users : (u \in res) <=> HoldsToken(store, t, u)
        /\ Cardinality(res) = 1
        /\ (\A row \in store : row.auth_token = t => row.token_type # KoboTokenType)
              => res = {NoUser}

\* a device request presenting the value of a stored row of another token_type
\* has been resolved to nobody, while a request presenting a stored sync token
\* has been resolved to its owner
C2_Witness ==
    \E r1, r2 \in Reqs :
        /\ kind[r1] = "device" /\ pc[r1] = "done" /\ identity[r1] = NoUser
        /\ \E row \in store : /\ row.token_type = OtherTokenType
                              /\ row.auth_token = get_auth_token(g[r1])
        /\ kind[r2] = "device" /\ pc[r2] = "done" /\ identity[r2] \in Users
        /\ HoldsToken(store, get_auth_token(g[r2]), identity[r2])

C4_RevokedDoesNotResolve ==
    \A u \in Users :
        revoked[u] # NoToken =>
            load_user_from_kobo_request(Stash(revoked[u]), store) = {NoUser}

\* a device without a cookie presented a revoked value and was resolved to nobody
C4_Witness ==
    \E r \in Reqs, u \in Users :
        /\ revoked[u] # NoToken
        /\ kind[r] = "device" /\ pc[r] = "done"
        /\ get_auth_token(g[r]) = revoked[u]
        /\ identity[r] = NoUser /\ resp[r] = "401"

\* C5: after a revoke of u has returned, a device request presenting the revoked
\* value is denied and is not authenticated as u, whatever cookie its session has.
C5_RevokedDeviceDenied ==
    [][\A r \in Reqs, u \in Users :
        (/\ pc[r] = "load_user" /\ pc'[r] = "done"
         /\ revoked[u] # NoToken
         /\ get_auth_token(g[r]) = revoked[u])
        => (identity'[r] # u /\ resp'[r] # "200")
      ]_vars

\* C6: an issue request that reaches its commit after a concurrent issue for the
\* same user has stored a row completes without error, stores no second row and
\* returns the stored row's value.
C6_RaceLoserRereads ==
    [][\A r \in Reqs :
        (/\ kind[r] = "issue" /\ pc[r] = "commit" /\ pc'[r] # "commit"
         /\ TokensOfUser(store, user_id[r]) # {})
        => (/\ pc'[r] = "render"
            /\ store' = store
            /\ auth_token'[r] \in TokensOfUser(store, user_id[r]))
      ]_vars

\* the table without the sync token rows of user u
DeleteTokens(s, u) == s \ TokensOfUser(s, u)

\* C7: a revoke always returns successfully; for a user without a sync token it
\* leaves the table unchanged, and a second revoke of the same user would leave
\* the table as the first one left it.
C7_RevokeIdempotent ==
    [][\A r \in Reqs :
        (pc[r] = "delete" /\ pc'[r] # pc[r]) =>
            /\ pc'[r] = "done" /\ resp'[r] = "200"
            /\ TokensOfUser(store, user_id[r]) = {} => store' = store
            /\ store' = DeleteTokens(store, user_id[r])
            /\ DeleteTokens(store', user_id[r]) = store'
      ]_vars

\* a revoke of a user who had no sync token has returned successfully
C7_Witness ==
    \E r \in Reqs :
        /\ kind[r] = "revoke" /\ pc[r] = "done" /\ resp[r] = "200"
        /\ identity[r] # NoUser
        /\ revoked[user_id[r]] = NoToken
        /\ TokensOfUser(store, user_id[r]) = {}
        /\ store # {}

\* C8: the resolution of a device request whose token is in no sync token row
\* raises nothing and finds nobody, and the request, when its session has no
\* cookie either, is answered 401; no device request is answered by a redirect.
C8_UnknownTokenDenied ==
    [][\A r \in Reqs :
        (/\ pc[r] = "load_user" /\ pc'[r] # pc[r]
         /\ get_auth_token(g[r]) # NoToken
         /\ \A u \in Users : ~HoldsToken(store, get_auth_token(g[r]), u))
        => (/\ pc'[r] = "done"
            /\ load_user_from_kobo_request(g[r], store) = {NoUser}
            /\ resp'[r] \notin {"redirect", "500"}
            /\ cookie[dev[r]] = NoUser => (identity'[r] = NoUser /\ resp'[r] = "401"))
      ]_vars

\* a device presented a value that was never issued and was answered 401
C8_Witness ==
    \E r \in Reqs :
        /\ kind[r] = "device" /\ pc[r] = "done" /\ resp[r] = "401"
        /\ identity[r] = NoUser
        /\ get_auth_token(g[r]) \in Tokens \ InUse

\* C9: a device request whose matched URL values hold no auth_token is handled
\* without error: nothing is stashed and the resolver finds nobody.
C9_MissingTokenHandled ==
    \A r \in Reqs :
        (/\ kind[r] = "device" /\ pc[r] # "preprocess"
         /\ "auth_token" \notin DOMAIN g[r])
        => (pc[r] # "error" /\ load_user_from_kobo_request(g[r], store) = {NoUser})

C11_SessionEstablished ==
    [][/\ \A r \in Reqs :
            (pc[r] = "load_user" /\ pc'[r] = "done")
            => /\ (cookie[dev[r]] = NoUser /\ identity'[r] # NoUser)
                  => /\ cookie'[dev[r]] = identity'[r]
                     /\ identity'[r] \in load_user_from_kobo_request(g[r], store)
               /\ (kind[r] = "generic" /\ cookie[dev[r]] # NoUser)
                  => /\ identity'[r] = cookie[dev[r]]
                     /\ resp'[r] = "200"
                     /\ cookie' = cookie
       /\ \A d \in Devices :
            cookie'[d] # cookie[d]
            => \/ cookie'[d] = NoUser
               \/ \E r \in Reqs : /\ pc[r] = "load_user" /\ dev[r] = d
                                   /\ identity'[r] = cookie'[d]
                                   /\ get_auth_token(g[r]) # NoToken
      ]_vars

\* a request without a path token has been answered as user u, the user a token
\* was resolved to earlier in the same device session
C11_Witness ==
    \E r \in Reqs :
        /\ kind[r] = "generic" /\ pc[r] = "done" /\ resp[r] = "200"
        /\ g[r] = Empty
        /\ identity[r] # NoUser /\ identity[r] = cookie[dev[r]]

\* C12: a request to generate_auth_token or delete_auth_token that carries no
\* authenticated identity inserts no row, deletes no row and is shown no token:
\* it never reaches the handler's body and its steps leave the table alone.
C12_AnonymousRefused ==
    [][\A r \in Reqs :
        (kind[r] \in {"issue", "revoke"} /\ caller[r] = NoUser /\ pc'[r] # pc[r])
        => /\ store' = store
           /\ auth_token[r] = NoRow /\ auth_token'[r] = NoRow
           /\ pc[r] \in {"login_required", "done"}
           /\ pc'[r] \in {"done", "idle"}
           /\ pc'[r] = "done" => resp'[r] \in {"redirect", "401"}
      ]_vars

\* an anonymous request for a user who holds a token has been refused, and
\* another one to revoke that token too
C12_Witness ==
    \E r1, r2 \in Reqs :
        /\ kind[r1] = "issue" /\ kind[r2] = "revoke"
        /\ caller[r1] = NoUser /\ caller[r2] = NoUser
        /\ pc[r1] = "done" /\ pc[r2] = "done"
        /\ resp[r1] # "200" /\ resp[r2] # "200"
        /\ user_id[r1] = user_id[r2]
        /\ TokensOfUser(store, user_id[r1]) # {}

\* C13: when the table fails while generate_auth_token(u) adds and commits, the
\* request ends as a server error and the table is as it was; the row the
\* failed request had made is never in the table and its token resolves to
\* nobody; a sync token row enters the table only in the successful commit of
\* the request that made it.
C13_IssueAllOrNothing ==
    [][/\ \A r \in Reqs :
            /\ (pc[r] = "commit" /\ pc'[r] = "error")
               => (store' = store /\ resp'[r] = "500")
            /\ (kind[r] = "issue" /\ pc[r] = "error")
               => /\ auth_token[r] \notin store
                  /\ UsersOfToken(store, auth_token[r].auth_token) = {}
                  /\ pc'[r] # pc[r] => (pc'[r] = "idle" /\ store' = store)
       /\ \A row \in store' \ store :
            row.token_type = KoboTokenType
            => \E r \in Reqs : /\ pc[r] = "commit" /\ pc'[r] = "render"
                                /\ auth_token[r] = row
      ]_vars

\* an issue for a user without a token has failed in its commit, the user still
\* has no token, and a later request has committed another user's token
C13_Witness ==
    \E r \in Reqs :
        /\ kind[r] = "issue" /\ pc[r] = "error" /\ resp[r] = "500"
        /\ TokensOfUser(store, user_id[r]) = {}
        /\ \E r2 \in Reqs \ {r} :
              /\ kind[r2] = "issue" /\ pc[r2] = "done" /\ resp[r2] = "200"
              /\ auth_token[r2] \in store

\* C14: a sync token never expires by time: every stored sync token row has the
\* maximum expiration and its token resolves to its owner whatever else has
\* happened since it was issued; a request that presents it without a session
\* is answered as the owner; the row leaves the table only in a step of
\* delete_auth_token for its owner.
C14_NeverExpires ==
    [][/\ \A row \in store :
            row.token_type = KoboTokenType
            => /\ row.expiration = DatetimeMax
               /\ load_user_from_kobo_request(Stash(row.auth_token), store)
                      = {row.user_id}
               /\ \A r \in Reqs :
                    (/\ pc[r] = "load_user" /\ pc'[r] = "done"
                     /\ cookie[dev[r]] = NoUser
                     /\ get_auth_token(g[r]) = row.auth_token)
                    => (identity'[r] = row.user_id /\ resp'[r] = "200")
       /\ \A row \in store \ store' :
            row.token_type = KoboTokenType
            => \E r \in Reqs : /\ kind[r] = "revoke"
                                /\ pc[r] = "delete" /\ pc'[r] = "done"
                                /\ user_id[r] = row.user_id
      ]_vars

\* a device has been answered as the owner of the token it presented, after
\* the request that issued the token is over and the other user has been
\* issued a token and has revoked it
C14_Witness ==
    \E r \in Reqs, u \in Users :
        /\ kind[r] = "device" /\ pc[r] = "done" /\ resp[r] = "200"
        /\ identity[r] = u
        /\ HoldsToken(store, get_auth_token(g[r]), u)
        /\ \A r2 \in Reqs : kind[r2] # "issue"
        /\ \E v \in Users \ {u} : revoked[v] # NoToken

\* C15: for a request whose matched values hold auth_token, pop_auth_token
\* removes exactly that key and stashes its value: the values handed on have no
\* auth_token, every other value is as it was matched, and what
\* get_auth_token reads for this request, up to and in its resolver, is the
\* removed value.
C15_ExtractorFrame ==
    [][\A r \in Reqs :
        /\ (/\ pc[r] = "preprocess" /\ pc'[r] # pc[r]
            /\ "auth_token" \in DOMAIN values[r])
           => /\ pc'[r] = "load_user"
              /\ DOMAIN values'[r] = DOMAIN values[r] \ {"auth_token"}
              /\ \A k \in DOMAIN values'[r] : values'[r][k] = values[r][k]
              /\ get_auth_token(g'[r]) = values[r]["auth_token"]
              /\ DOMAIN g'[r] = {"auth_token"}
        /\ (kind[r] = "device" /\ pc[r] = "load_user")
           => /\ pc'[r] \in {"load_user", "done"}
              /\ g'[r] = g[r] /\ values'[r] = values[r]
              /\ (pc'[r] = "done" /\ cookie[dev[r]] = NoUser)
                 => identity'[r] \in load_user_from_kobo_request(g[r], store)
      ]_vars

\* a device request matched with a token and a book has been resolved to the
\* token's owner; its values hold the book alone and its stash the token
C15_Witness ==
    \E r \in Reqs, t \in Tokens :
        /\ kind[r] = "device" /\ pc[r] = "done" /\ resp[r] = "200"
        /\ values[r] = ("book_uuid" :> BookUuid)
        /\ g[r] = Stash(t)
        /\ HoldsToken(store, t, identity[r])

\* C16: the stashed token belongs to its request: a step of one request never
\* changes the stash of another, the stash of a request is made from its own
\* matched values, and its resolver resolves its own stash, whatever other
\* requests are in flight and whatever they have stashed.
C16_StashRequestScoped ==
    [][\A r \in Reqs :
        /\ pc'[r] = pc[r] => g'[r] = g[r]
        /\ (pc'[r] # pc[r] /\ g'[r] # g[r])
           => \/ pc'[r] = "idle" /\ g'[r] = Empty
              \/ /\ pc[r] = "preprocess" /\ "auth_token" \in DOMAIN values[r]
                 /\ g'[r] = Stash(values[r]["auth_token"])
        /\ (pc[r] = "load_user" /\ pc'[r] = "done" /\ cookie[dev[r]] = NoUser)
           => /\ identity'[r] \in load_user_from_kobo_request(g[r], store)
              /\ identity'[r] # NoUser
                 => HoldsToken(store, get_auth_token(g[r]), identity'[r])
      ]_vars

\* two requests are in flight before their resolvers, in no session yet: one has
\* stashed a user's token, the other a token of nobody
C16_Witness ==
    \E r1, r2 \in Reqs, u \in Users :
        /\ pc[r1] = "load_user" /\ pc[r2] = "load_user"
        /\ kind[r1] = "device" /\ kind[r2] = "device"
        /\ cookie[dev[r1]] = NoUser /\ cookie[dev[r2]] = NoUser
        /\ HoldsToken(store, get_auth_token(g[r1]), u)
        /\ get_auth_token(g[r2]) # NoToken
        /\ UsersOfToken(store, get_auth_token(g[r2])) = {}

\* C17: whenever generate_auth_token(u) returns a page with token T, the table
\* holds at that moment the row (user_id u, auth_token T, token_type 1),
\* whatever revoke and issue requests for u run at the same time.
C17_ReturnedTokenStored ==
    [][\A r \in Reqs :
        (kind[r] = "issue" /\ pc[r] = "render" /\ pc'[r] = "done")
        => /\ resp'[r] = "200"
           /\ auth_token[r] = Row(user_id[r], auth_token[r].auth_token,
                                   KoboTokenType, DatetimeMax)
           /\ auth_token[r] \in store
      ]_vars

\* C17, amended: the row whose token generate_auth_token(u) returns was in the
\* table when the request last used the table (its query when it found the
\* row, its commit when it made it), it is the row (u, T, token_type 1), and
\* between then and the return it leaves the table only by a delete_auth_token
\* for u that commits in between.
C17_ReturnedTokenWasStored ==
    [][\A r \in Reqs :
        kind[r] = "issue"
        => /\ (pc[r] # "render" /\ pc'[r] = "render")
              => /\ auth_token'[r] \in store'
                 /\ auth_token'[r].user_id = user_id[r]
                 /\ auth_token'[r].token_type = KoboTokenType
           /\ (pc[r] = "render" /\ auth_token[r] \in store /\ auth_token[r] \notin store')
              => \E r2 \in Reqs \ {r} :
                    /\ kind[r2] = "revoke" /\ user_id[r2] = user_id[r]
                    /\ pc[r2] = "delete" /\ pc'[r2] = "done"
           /\ (pc[r] = "render" /\ pc'[r] # pc[r])
              => /\ pc'[r] = "done" /\ resp'[r] = "200"
                 /\ auth_token'[r] = auth_token[r]
                 /\ store' = store
      ]_vars

\* an issue has returned a token that is stored while a revoke for the same
\* user is in flight and has not deleted yet
C17_Witness ==
    \E r, r2 \in Reqs :
        /\ kind[r] = "issue" /\ pc[r] = "done" /\ resp[r] = "200"
        /\ auth_token[r] \in store
        /\ kind[r2] = "revoke" /\ pc[r2] = "delete"
        /\ user_id[r2] = user_id[r]

\* C18: every step of generate_auth_token(u) and of delete_auth_token(u) leaves
\* each row of another user and each row of u of another token_type as it was,
\* in the table before and after; the token of another user v resolves to v
\* after the step as before.
C18_OtherRowsUntouched ==
    [][\A r \in Reqs :
        (kind[r] \in {"issue", "revoke"} /\ pc'[r] # pc[r])
        => /\ \A row \in store \cup store' :
                (row.user_id # user_id[r] \/ row.token_type # KoboTokenType)
                => (row \in store /\ row \in store')
           /\ \A t \in Tokens :
                UsersOfToken(store', t) \ {user_id[r]}
                   = UsersOfToken(store, t) \ {user_id[r]}
      ]_vars

\* a revoke has deleted the sync token of its user while the table holds a row
\* of another token_type of that user and the sync token of another user
C18_Witness ==
    \E r \in Reqs :
        /\ kind[r] = "revoke" /\ pc[r] = "done" /\ resp[r] = "200"
        /\ revoked[user_id[r]] # NoToken
        /\ \E row \in store : /\ row.user_id = user_id[r]
                               /\ row.token_type = OtherTokenType
        /\ \E v \in Users \ {user_id[r]} : TokensOfUser(store, v) # {}

\* C19: a request authenticated as user A for generate_auth_token(B) or
\* delete_auth_token(B) with B # A inserts no row, deletes no row, is shown no
\* token and is not answered with success.
C19_OnlyOwnToken ==
    [][\A r \in Reqs :
        (/\ kind[r] \in {"issue", "revoke"}
         /\ caller[r] # NoUser /\ caller[r] # user_id[r]
         /\ pc'[r] # pc[r])
        => /\ store' = store
           /\ pc'[r] # "render"
           /\ pc'[r] = "done" => resp'[r] # "200"
      ]_vars

====
